---- MODULE Spec2Model ----
(***************************************************************************)
(* Model of the Backend helpers: the cached database connection            *)
(* (utils/dbConnection.js), the handler wrappers (asyncHandler,            *)
(* catchAsync, withDatabase, withPerformanceMonitoring,                    *)
(* withDatabaseAndMonitoring) and the request-size limiter.                *)
(*                                                                         *)
(* JavaScript runs each callback to completion on one event loop, so one   *)
(* action is one synchronous run: the part of an async function up to its  *)
(* first await, or the continuation after an await.  The driver (mongoose) *)
(* is the environment: it settles the promises it handed out and emits     *)
(* its events at any time.                                                 *)
(***************************************************************************)
EXTENDS Integers, Sequences, FiniteSets, TLC

\* Number of connectToDatabase()/closeConnection() invocations explored.
MaxCalls == 3

CallIds == 1..MaxCalls

\* Number of those invocations explored while a request is followed through
\* a wrapped handler (the request's own connectToDatabase() included).
MwCalls == 2

MwCallIds == 1..MwCalls

\* A JavaScript Error: its constructor name and its message.
Err(n, m) == [name |-> n, message |-> m]

NoErr == Err("none", "")

\* Errors the driver can fail with (establishment or teardown).
DriverErrors ==
    {Err("MongoNetworkError", "connect ECONNREFUSED"),
     Err("MongooseServerSelectionError", "Server selection timed out")}

\* Errors a wrapped handler can fail with.
HandlerErrors == {Err("Error", "boom"), Err("ValidationError", "bad input")}

\* fn(...).catch on a value that is no promise.
NotAPromise == Err("TypeError", "fn(...).catch is not a function")

\* The events connectToDatabase() subscribes to.
Events == {"error", "disconnected", "reconnected"}

VARIABLES
    cachedConnection,   \* 0 is null, h > 0 the handle mongoose.connect resolved with
    readyState,         \* mongoose.connection.readyState, 0..3
    listeners,          \* listeners[ev]: observers registered with mongoose.connection.on(ev, ..)
    attempts,           \* mongoose.connect() invocations so far
    lost,               \* driver: the connection dropped and the driver is retrying
    disc,               \* what the last 'disconnected' event saw and left behind
    calls,              \* calls[c]: the c-th invocation of connectToDatabase/closeConnection
    req,                \* the request travelling through a wrapped handler
    lim,                \* a request at the middleware built by requestSizeLimiter(maxSize)
    hdr,                \* a request at setCacheHeaders
    tm,                 \* one withTimeout(promise, timeoutMs) race
    bp                  \* one batchProcess(items, batchSize, processor) call

dbVars == <<cachedConnection, readyState, listeners, attempts, lost, disc, calls>>

utilVars == <<hdr, tm, bp>>

vars ==
    <<cachedConnection, readyState, listeners, attempts, lost, disc, calls, req, lim,
      hdr, tm, bp>>

----------------------------------------------------------------------------
(* The invocation record.  op/pc are the position of the async function;   *)
(* the other fields record what the invocation observed and did.           *)

NoCall ==
    [op |-> "none", pc |-> "idle", path |-> "none",
     entryCache |-> 0, entryReady |-> 0, sawInFlight |-> {},
     firstAfterDisc |-> FALSE, discStale |-> 0, discInFlight |-> {},
     started |-> 0, attempt |-> 0, attemptErr |-> NoErr,
     teardown |-> 0, teardownErr |-> NoErr,
     registered |-> 0, ret |-> 0, err |-> NoErr, cacheAtSettle |-> 0]

NoDisc ==
    [seen |-> FALSE, pending |-> FALSE, stale |-> 0, inFlight |-> {},
     connectedAfter |-> FALSE, cacheAfter |-> 0]

\* Establishment attempts whose mongoose.connect() promise is still pending.
InFlight == {calls[c].attempt : c \in {d \in CallIds : calls[d].pc = "awaitConnect"}}

\* Invocations are numbered in the order they are made.
NextCall(c) ==
    /\ calls[c].op = "none"
    /\ \A d \in CallIds : d < c => calls[d].op # "none"

\* The handle an establishment attempt resolves with: a fresh one per attempt.
Handle(a) == a

----------------------------------------------------------------------------
(* Decisions of the code, one operator each.                               *)

UseCached_IgnoreReady(cache, rs) == cache # 0

\* dbConnection.js:12  if (cachedConnection && mongoose.connection.readyState === 1)
UseCached(cache, rs) == cache # 0 /\ rs = 1

CacheOnConnectFailure_Keep(cache) == cache

\* dbConnection.js:56  cachedConnection = null
CacheOnConnectFailure(cache) == 0

OnDisconnected_Keep(cache) == cache

\* dbConnection.js:44-47  the 'disconnected' observer
OnDisconnected(cache) == 0

\* dbConnection.js:39-42  the 'error' observer
OnError(cache) == 0

\* dbConnection.js:49-51  the 'reconnected' observer only logs
OnReconnected(cache) == cache

CloseFailureOutcome_Rethrow(e) == [pc |-> "rejected", err |-> e]

\* dbConnection.js:70-72  catch (error) { console.error(..) }: nothing is re-thrown
CloseFailureOutcome(e) == [pc |-> "resolved", err |-> NoErr]

RethrownError_Wrapped(e) == Err("Error", "Database unavailable")

\* dbConnection.js:57  throw error
RethrownError(e) == e

\* dbConnection.js:79-81
isConnected == readyState = 1

\* An event reaches the observers registered for it (none registered: nothing runs).
Emit(ev, cache) ==
    IF listeners[ev] = 0 THEN cache
    ELSE CASE ev = "error" -> OnError(cache)
           [] ev = "disconnected" -> OnDisconnected(cache)
           [] ev = "reconnected" -> OnReconnected(cache)

----------------------------------------------------------------------------
(* connectToDatabase                                                       *)

\* Lines 10-34: from the call to the await of mongoose.connect().
ConnectEntry(c) ==
    /\ NextCall(c)
    /\ LET hit == UseCached(cachedConnection, readyState)
           seen == [calls[c] EXCEPT !.op = "connect",
                                    !.entryCache = cachedConnection,
                                    !.entryReady = readyState,
                                    !.sawInFlight = InFlight,
                                    !.firstAfterDisc = disc.pending,
                                    !.discStale = disc.stale,
                                    !.discInFlight = disc.inFlight]
       IN  /\ calls' = [calls EXCEPT ![c] =
                IF hit
                THEN [seen EXCEPT !.pc = "resolved", !.path = "cached",
                                  !.ret = cachedConnection,
                                  !.cacheAtSettle = cachedConnection]
                ELSE [seen EXCEPT !.pc = "awaitConnect", !.path = "establish",
                                  !.started = @ + 1,
                                  !.attempt = attempts + 1]]
           /\ attempts' = IF hit THEN attempts ELSE attempts + 1
           /\ readyState' = IF hit \/ readyState = 1 THEN readyState ELSE 2
    /\ disc' = [disc EXCEPT !.pending = FALSE]
    /\ UNCHANGED <<cachedConnection, listeners, lost>>

\* Lines 34-53: mongoose.connect() resolved; the continuation stores the handle,
\* registers the three observers and returns the cache.
ConnectResolved(c) ==
    /\ calls[c].pc = "awaitConnect"
    /\ cachedConnection' = Handle(calls[c].attempt)
    /\ listeners' = [ev \in Events |-> listeners[ev] + 1]
    /\ readyState' = 1
    /\ lost' = FALSE
    /\ calls' = [calls EXCEPT ![c] =
            [@ EXCEPT !.pc = "resolved", !.registered = @ + 1,
                      !.ret = cachedConnection',
                      !.cacheAtSettle = cachedConnection']]
    /\ UNCHANGED <<attempts, disc>>

\* Lines 54-58: mongoose.connect() rejected with e.
ConnectFailed(c, e) ==
    /\ calls[c].pc = "awaitConnect"
    /\ cachedConnection' = CacheOnConnectFailure(cachedConnection)
    /\ readyState' = IF readyState = 2 THEN 0 ELSE readyState
    /\ calls' = [calls EXCEPT ![c] =
            [@ EXCEPT !.pc = "rejected", !.attemptErr = e,
                      !.err = RethrownError(e),
                      !.cacheAtSettle = cachedConnection']]
    /\ UNCHANGED <<listeners, attempts, lost, disc>>

----------------------------------------------------------------------------
(* closeConnection                                                         *)

\* Lines 64-67: from the call to the await of mongoose.connection.close().
CloseEntry(c) ==
    /\ NextCall(c)
    /\ LET seen == [calls[c] EXCEPT !.op = "close",
                                    !.entryCache = cachedConnection,
                                    !.entryReady = readyState]
       IN  IF cachedConnection # 0
           THEN /\ calls' = [calls EXCEPT ![c] =
                        [seen EXCEPT !.pc = "awaitClose", !.teardown = @ + 1]]
                /\ readyState' = 3
           ELSE /\ calls' = [calls EXCEPT ![c] =
                        [seen EXCEPT !.pc = "resolved",
                                     !.cacheAtSettle = cachedConnection]]
                /\ readyState' = readyState
    /\ UNCHANGED <<cachedConnection, listeners, attempts, lost, disc>>

\* Lines 68-69: close() resolved.
CloseResolved(c) ==
    /\ calls[c].pc = "awaitClose"
    /\ cachedConnection' = 0
    /\ readyState' = 0
    /\ lost' = FALSE
    /\ calls' = [calls EXCEPT ![c] =
            [@ EXCEPT !.pc = "resolved", !.cacheAtSettle = cachedConnection']]
    /\ UNCHANGED <<listeners, attempts, disc>>

\* Lines 70-72: close() rejected with e; the driver leaves the connection
\* either open or closed.
CloseFailed(c, e) ==
    /\ calls[c].pc = "awaitClose"
    /\ \E rs \in {0, 1} : readyState' = rs
    /\ calls' = [calls EXCEPT ![c] =
            [@ EXCEPT !.pc = CloseFailureOutcome(e).pc,
                      !.err = CloseFailureOutcome(e).err,
                      !.teardownErr = e,
                      !.cacheAtSettle = cachedConnection]]
    /\ UNCHANGED <<cachedConnection, listeners, attempts, lost, disc>>

----------------------------------------------------------------------------
(* Driver events                                                           *)

\* The open connection drops: readyState leaves 1, 'disconnected' is emitted.
DriverDisconnected ==
    /\ readyState = 1
    /\ readyState' = 0
    /\ lost' = TRUE
    /\ cachedConnection' = Emit("disconnected", cachedConnection)
    /\ disc' = [seen |-> TRUE, pending |-> TRUE, stale |-> cachedConnection,
                inFlight |-> InFlight,
                connectedAfter |-> (readyState' = 1),
                cacheAfter |-> cachedConnection']
    /\ UNCHANGED <<listeners, attempts, calls>>

\* The driver reports an error on the open connection.
DriverError ==
    /\ readyState = 1
    /\ cachedConnection' = Emit("error", cachedConnection)
    /\ UNCHANGED <<readyState, listeners, attempts, lost, disc, calls>>

\* The driver regained a connection it had lost.
DriverReconnected ==
    /\ readyState = 0
    /\ lost
    /\ readyState' = 1
    /\ lost' = FALSE
    /\ cachedConnection' = Emit("reconnected", cachedConnection)
    /\ UNCHANGED <<listeners, attempts, disc, calls>>

----------------------------------------------------------------------------
(* The handler wrappers.  A wrapped handler is a stack of layers around    *)
(* fn; frame i is the activation of layer i and the last frame is fn.      *)
(* out is what calling the frame gave its caller: "threw" (a synchronous   *)
(* exception), "value" (a value that is no promise), or a promise that is  *)
(* "pending", "resolved" or "rejected".  handled: a rejection handler is   *)
(* attached to the promise (a .catch or an await).                         *)

Frame(pc, out, err) == [pc |-> pc, out |-> out, err |-> err, handled |-> FALSE]

NoFrame == Frame("idle", "none", NoErr)

withDatabaseAndMonitoring_NoDatabase ==
    <<"withPerformanceMonitoring", "asyncHandler">>

\* part_000:69-71  withPerformanceMonitoring(withDatabase(asyncHandler(fn)))
withDatabaseAndMonitoring ==
    <<"withPerformanceMonitoring", "withDatabase", "asyncHandler">>

\* The deepest stack: the composite's layers and fn.
MaxDepth == Len(withDatabaseAndMonitoring) + 1

\* The exported wrappers, each as its stack of layers, outermost first.
Layers(w) ==
    CASE w = "withDatabaseAndMonitoring" -> withDatabaseAndMonitoring
      [] OTHER -> <<w>>

Wrappers ==
    {"asyncHandler", "catchAsync", "withDatabase", "withPerformanceMonitoring",
     "withDatabaseAndMonitoring"}

\* What the wrapped fn does when invoked.
Behaviours == {"throw", "value", "resolve", "reject"}

NoReq ==
    [wrapper |-> "none", layers |-> <<>>, b |-> "none", e |-> NoErr,
     fr |-> [i \in 1..MaxDepth |-> NoFrame],
     conn |-> 0, connAtFn |-> "none",
     nextArgs |-> <<>>, sent |-> <<>>, logs |-> <<>>, trace |-> <<>>]

\* The frame of fn itself.
FnIndex(layers) == Len(layers) + 1

\* Calling fn: it throws, returns a plain value, or returns a promise.
fn(b, e) ==
    CASE b = "throw" -> Frame("done", "threw", e)
      [] b = "value" -> Frame("done", "value", NoErr)
      [] OTHER -> Frame("running", "pending", NoErr)

asyncHandler_SwallowThrow(inner) == Frame("watching", "value", NoErr)

\* part_000:5-9  Promise.resolve(fn(req, res, next)).catch(next): a synchronous
\* throw of fn leaves the handler; otherwise the handler returns undefined.
asyncHandler(inner) ==
    IF inner.out = "threw" THEN Frame("done", "threw", inner.err)
    ELSE Frame("watching", "value", NoErr)

\* part_000:15-19  fn(req, res, next).catch(next): as asyncHandler, but a
\* return value without .catch is a TypeError.
catchAsync(inner) ==
    IF inner.out = "threw" THEN Frame("done", "threw", inner.err)
    ELSE IF inner.out = "value" THEN Frame("done", "threw", NotAPromise)
    ELSE Frame("watching", "value", NoErr)

\* part_000:44-49  up to the await of fn(req, res, next); a synchronous throw
\* of fn is caught, logged and re-thrown (lines 58-62).
withPerformanceMonitoring(inner) ==
    IF inner.out = "threw" THEN Frame("done", "rejected", inner.err)
    ELSE Frame("awaitInner", "pending", NoErr)

\* part_000:24-28  up to the await of connectToDatabase().
withDatabase == Frame("awaitConnect", "pending", NoErr)

\* .catch(next) and await attach a handler to the promise they are given.
Attach(inner) ==
    IF inner.out \in {"pending", "resolved", "rejected"}
    THEN [inner EXCEPT !.handled = TRUE] ELSE inner

RECURSIVE Call(_, _, _, _, _)
\* The synchronous part of calling frame i: the frames after the call.
Call(fr, i, layers, b, e) ==
    IF i = FnIndex(layers) THEN [fr EXCEPT ![i] = fn(b, e)]
    ELSE IF layers[i] = "withDatabase" THEN [fr EXCEPT ![i] = withDatabase]
    ELSE LET g == Call(fr, i + 1, layers, b, e)
             me == CASE layers[i] = "asyncHandler" -> asyncHandler(g[i + 1])
                     [] layers[i] = "catchAsync" -> catchAsync(g[i + 1])
                     [] layers[i] = "withPerformanceMonitoring" ->
                            withPerformanceMonitoring(g[i + 1])
         IN  [g EXCEPT ![i] = me,
                       ![i + 1] = IF me.out = "threw" THEN @ ELSE Attach(@)]

Envelope500_NoMessage(e) ==
    [status |-> 500,
     body |-> [success |-> FALSE, error |-> "Database operation failed",
               message |-> ""]]

\* part_000:32-36  res.status(500).json({success, error, message})
Envelope500(e) ==
    [status |-> 500,
     body |-> [success |-> FALSE, error |-> "Database operation failed",
               message |-> e.message]]

ForwardToNext_Dropped(args, e) == args

\* part_000:7 and :17  .catch(next): next is called with the rejection
ForwardToNext(args, e) == Append(args, e)

\* part_000:31  console.error('Database operation error:', error)
DatabaseLog(e) == [by |-> "withDatabase", method |-> FALSE, path |-> FALSE,
                   duration |-> FALSE, error |-> e]

MonitoringLog_NoDuration(e) ==
    [by |-> "withPerformanceMonitoring", method |-> TRUE,
     path |-> TRUE, duration |-> FALSE, error |-> e]

\* part_000:60  console.error(`Request failed: METHOD PATH after Nms`, error)
MonitoringLog(e) == [by |-> "withPerformanceMonitoring", method |-> TRUE,
                     path |-> TRUE, duration |-> TRUE, error |-> e]

\* What the wrappers did to the outside, in the order they did it: a line
\* logged (context: it carries method, path and duration), a response sent,
\* a call of next.
Logged(l) ==
    [kind |-> "log", by |-> l.by,
     context |-> (l.method /\ l.path /\ l.duration), error |-> l.error]

Sent500(e) == [kind |-> "send", by |-> "withDatabase", context |-> FALSE, error |-> e]

CalledNext(e) == [kind |-> "next", by |-> "catch", context |-> FALSE, error |-> e]

\* The state of the connect call the database layer is waiting for.
ConnPc(r) == IF r.conn = 0 THEN "none" ELSE calls[r.conn].pc

\* fn has been invoked.
FnInvoked(r) == r.wrapper # "none" /\ r.fr[FnIndex(r.layers)].out # "none"

\* The wrappers' catch of line 58 logs a synchronous throw of the inner call.
SyncLogs(r, g, i) ==
    IF /\ i <= Len(r.layers)
       /\ r.layers[i] = "withPerformanceMonitoring"
       /\ g[i].out = "rejected"
    THEN Append(r.logs, MonitoringLog(g[i].err)) ELSE r.logs

\* A request arrives at the handler built by wrapper w around an fn that
\* behaves as b (failing with e).  The outermost layer runs up to its first
\* await; a database layer reached on the way enters connectToDatabase().
Invoke(w, b, e) ==
    /\ req.wrapper = "none"
    /\ LET layers == Layers(w)
           g == Call(req.fr, 1, layers, b, e)
           r0 == [req EXCEPT !.wrapper = w, !.layers = layers, !.b = b, !.e = e,
                             !.fr = g]
           r1 == [r0 EXCEPT !.logs = SyncLogs(r0, g, 1),
                            !.trace = @ \o [k \in 1..(Len(SyncLogs(r0, g, 1)) - Len(r0.logs))
                                              |-> Logged(MonitoringLog(g[1].err))]]
       IN  IF \E i \in 1..MaxDepth : g[i].pc = "awaitConnect"
           THEN \E c \in MwCallIds :
                    /\ ConnectEntry(c)
                    /\ req' = [r1 EXCEPT !.conn = c]
           ELSE /\ req' = r1
                /\ UNCHANGED dbVars
    /\ UNCHANGED <<lim, utilVars>>

\* part_000:28-37  the await of connectToDatabase() is over: on failure the
\* catch sends the 500 envelope; on success fn is called and awaited, and a
\* synchronous throw of fn goes to the same catch.
WithDatabaseConnected(i) ==
    /\ req.fr[i].pc = "awaitConnect"
    /\ ConnPc(req) \in {"resolved", "rejected"}
    /\ IF ConnPc(req) = "rejected"
       THEN req' = [req EXCEPT
                !.fr[i] = [@ EXCEPT !.pc = "done", !.out = "resolved"],
                !.logs = Append(@, DatabaseLog(calls[req.conn].err)),
                !.sent = Append(@, Envelope500(calls[req.conn].err)),
                !.trace = @ \o <<Logged(DatabaseLog(calls[req.conn].err)),
                                 Sent500(calls[req.conn].err)>>]
       ELSE LET g == Call(req.fr, i + 1, req.layers, req.b, req.e)
                inner == g[i + 1]
            IN  IF inner.out = "threw"
                THEN req' = [req EXCEPT
                        !.fr = [g EXCEPT ![i] = [@ EXCEPT !.pc = "done",
                                                           !.out = "resolved"]],
                        !.connAtFn = IF FnInvoked([req EXCEPT !.fr = g])
                                     THEN ConnPc(req) ELSE @,
                        !.logs = Append(@, DatabaseLog(inner.err)),
                        !.sent = Append(@, Envelope500(inner.err)),
                        !.trace = @ \o <<Logged(DatabaseLog(inner.err)),
                                         Sent500(inner.err)>>]
                ELSE req' = [req EXCEPT
                        !.fr = [g EXCEPT ![i] = [@ EXCEPT !.pc = "awaitInner"],
                                         ![i + 1] = Attach(@)],
                        !.connAtFn = IF FnInvoked([req EXCEPT !.fr = g])
                                     THEN ConnPc(req) ELSE @]
    /\ UNCHANGED <<dbVars, lim, utilVars>>

\* part_000:29-37  the await of fn(req, res, next) is over.
WithDatabaseSettled(i) ==
    /\ i <= Len(req.layers)
    /\ req.layers[i] = "withDatabase"
    /\ req.fr[i].pc = "awaitInner"
    /\ req.fr[i + 1].out \in {"value", "resolved", "rejected"}
    /\ IF req.fr[i + 1].out = "rejected"
       THEN req' = [req EXCEPT
                !.fr[i] = [@ EXCEPT !.pc = "done", !.out = "resolved"],
                !.logs = Append(@, DatabaseLog(req.fr[i + 1].err)),
                !.sent = Append(@, Envelope500(req.fr[i + 1].err)),
                !.trace = @ \o <<Logged(DatabaseLog(req.fr[i + 1].err)),
                                 Sent500(req.fr[i + 1].err)>>]
       ELSE req' = [req EXCEPT
                !.fr[i] = [@ EXCEPT !.pc = "done", !.out = "resolved"]]
    /\ UNCHANGED <<dbVars, lim, utilVars>>

\* part_000:49-62  the await of fn(req, res, next) is over: the result is
\* returned, or the error is logged with the duration and re-thrown.
MonitoringSettled(i) ==
    /\ i <= Len(req.layers)
    /\ req.layers[i] = "withPerformanceMonitoring"
    /\ req.fr[i].pc = "awaitInner"
    /\ req.fr[i + 1].out \in {"value", "resolved", "rejected"}
    /\ IF req.fr[i + 1].out = "rejected"
       THEN req' = [req EXCEPT
                !.fr[i] = [@ EXCEPT !.pc = "done", !.out = "rejected",
                                    !.err = req.fr[i + 1].err],
                !.logs = Append(@, MonitoringLog(req.fr[i + 1].err)),
                !.trace = Append(@, Logged(MonitoringLog(req.fr[i + 1].err)))]
       ELSE req' = [req EXCEPT
                !.fr[i] = [@ EXCEPT !.pc = "done", !.out = "resolved"]]
    /\ UNCHANGED <<dbVars, lim, utilVars>>

\* The promise fn returned settles.
FnSettled ==
    /\ req.wrapper # "none"
    /\ req.fr[FnIndex(req.layers)].out = "pending"
    /\ req' = [req EXCEPT !.fr[FnIndex(req.layers)] =
            IF req.b = "reject"
            THEN [@ EXCEPT !.pc = "done", !.out = "rejected", !.err = req.e]
            ELSE [@ EXCEPT !.pc = "done", !.out = "resolved"]]
    /\ UNCHANGED <<dbVars, lim, utilVars>>

\* part_000:7 and :17  the .catch(next) handler runs on a rejection.
CatchForward(i) ==
    /\ req.fr[i].pc = "watching"
    /\ req.fr[i + 1].out = "rejected"
    /\ req' = [req EXCEPT
            !.fr[i] = [@ EXCEPT !.pc = "done"],
            !.nextArgs = ForwardToNext(@, req.fr[i + 1].err),
            !.trace = Append(@, CalledNext(req.fr[i + 1].err))]
    /\ UNCHANGED <<dbVars, lim, utilVars>>

\* A rejected promise nobody attached a handler to.
Unhandled(r) ==
    \E i \in 1..MaxDepth : r.fr[i].out = "rejected" /\ ~r.fr[i].handled

----------------------------------------------------------------------------
(* requestSizeLimiter and parseSize.  A string is a sequence of one-        *)
(* character strings; a JavaScript number is its integer value or NaN.     *)

\* Longest maxSize argument enumerated in full.
MaxSizeLen == 3

SizeChars == {"1", "5", ".", " ", "k", "K", "m", "b"}

\* An argument or header that is not given (undefined).
Undefined == <<"undefined">>

Num(v) == [nan |-> FALSE, v |-> v]

NaN == [nan |-> TRUE, v |-> 0]

Digits == <<"0", "1", "2", "3", "4", "5", "6", "7", "8", "9">>

IsDigit(ch) == \E d \in 1..10 : Digits[d] = ch

DigitValue(ch) == (CHOOSE d \in 1..10 : Digits[d] = ch) - 1

\* String.prototype.toLowerCase on the letters in use.
ToLowerCase(str) ==
    [i \in 1..Len(str) |->
        CASE str[i] = "K" -> "k"
          [] str[i] = "M" -> "m"
          [] str[i] = "G" -> "g"
          [] str[i] = "B" -> "b"
          [] OTHER -> str[i]]

RECURSIVE DigitsEnd(_, _)
\* The first position at or after i that holds no digit.
DigitsEnd(str, i) ==
    IF i <= Len(str) /\ IsDigit(str[i]) THEN DigitsEnd(str, i + 1) ELSE i

RECURSIVE SpaceEnd(_, _)
\* The first position at or after i that holds no white space.
SpaceEnd(str, i) ==
    IF i <= Len(str) /\ str[i] = " " THEN SpaceEnd(str, i + 1) ELSE i

RECURSIVE DecimalValue(_)
\* The value of a string of digits.
DecimalValue(ds) ==
    IF Len(ds) = 0 THEN 0
    ELSE 10 * DecimalValue(SubSeq(ds, 1, Len(ds) - 1)) + DigitValue(ds[Len(ds)])

RECURSIVE Pow10(_)
Pow10(k) == IF k = 0 THEN 1 ELSE 10 * Pow10(k - 1)

RECURSIVE Decimal(_)
\* The decimal digits of n, as a header carries them.
Decimal(n) ==
    IF n < 10 THEN <<Digits[n + 1]>>
    ELSE Decimal(n \div 10) \o <<Digits[(n % 10) + 1]>>

\* dbConnection.js:210-215  the unit table
Units(u) ==
    CASE u = <<"b">> -> 1
      [] u = <<"k", "b">> -> 1024
      [] u = <<"m", "b">> -> 1024 * 1024
      [] u = <<"g", "b">> -> 1024 * 1024 * 1024

UnitNames == {<<"b">>, <<"k", "b">>, <<"m", "b">>, <<"g", "b">>}

\* dbConnection.js:217  /^(\d+(?:\.\d+)?)\s*(b|kb|mb|gb)?$/ on the lowered
\* string: the groups it captures, or no match.
MatchSize(str) ==
    LET s == ToLowerCase(str)
        i1 == DigitsEnd(s, 1)
        i2 == IF i1 <= Len(s) /\ s[i1] = "." THEN DigitsEnd(s, i1 + 1) ELSE i1
        hasFrac == i2 > i1 + 1
        numEnd == IF hasFrac THEN i2 ELSE i1
        u0 == SpaceEnd(s, numEnd)
        unit == SubSeq(s, u0, Len(s))
    IN  IF i1 > 1 /\ (unit = <<>> \/ unit \in UnitNames)
        THEN [ok |-> TRUE,
              int |-> SubSeq(s, 1, i1 - 1),
              frac |-> IF hasFrac THEN SubSeq(s, i1 + 1, i2 - 1) ELSE <<>>,
              unit |-> unit]
        ELSE [ok |-> FALSE, int |-> <<>>, frac |-> <<>>, unit |-> <<>>]

parseSize_DecimalUnits(size) ==
    LET m == MatchSize(size)
        unit == IF m.unit = <<>> THEN <<"b">> ELSE m.unit
        dec == CASE unit = <<"b">> -> 1
                 [] unit = <<"k", "b">> -> 1000
                 [] unit = <<"m", "b">> -> 1000 * 1000
                 [] unit = <<"g", "b">> -> 1000 * 1000 * 1000
    IN  IF ~m.ok THEN 0
        ELSE DecimalValue(m.int) * dec
             + ((DecimalValue(m.frac) * dec) \div Pow10(Len(m.frac)))

\* dbConnection.js:209-224  Math.floor(parseFloat(match[1]) * units[unit]),
\* or 0 when the string does not match.
parseSize(size) ==
    LET m == MatchSize(size)
        unit == IF m.unit = <<>> THEN <<"b">> ELSE m.unit
    IN  IF ~m.ok THEN 0
        ELSE DecimalValue(m.int) * Units(unit)
             + ((DecimalValue(m.frac) * Units(unit)) \div Pow10(Len(m.frac)))

\* dbConnection.js:191  parseInt(req.headers['content-length']): leading
\* white space, an optional sign, then the longest run of digits; NaN when
\* there is none (or no header).
parseInt(h) ==
    IF h = Undefined THEN NaN
    ELSE LET i0 == SpaceEnd(h, 1)
             neg == i0 <= Len(h) /\ h[i0] = "-"
             i1 == IF i0 <= Len(h) /\ h[i0] \in {"-", "+"} THEN i0 + 1 ELSE i0
             i2 == DigitsEnd(h, i1)
             v == DecimalValue(SubSeq(h, i1, i2 - 1))
         IN  IF i2 = i1 THEN NaN ELSE Num(IF neg THEN 0 - v ELSE v)

\* dbConnection.js:189  (maxSize = '10mb')
DefaultMaxSize == <<"1", "0", "m", "b">>

TooLarge_Inclusive(contentLength, maxBytes) ==
    /\ ~contentLength.nan
    /\ contentLength.v # 0
    /\ contentLength.v >= maxBytes

\* dbConnection.js:194  if (contentLength && contentLength > maxBytes)
TooLarge(contentLength, maxBytes) ==
    /\ ~contentLength.nan
    /\ contentLength.v # 0
    /\ contentLength.v > maxBytes

\* dbConnection.js:195-199  res.status(413).json({success, error, maxSize})
Envelope413(maxSize) ==
    [status |-> 413,
     body |-> [success |-> FALSE, error |-> "Request entity too large",
               maxSize |-> maxSize]]

NoLim ==
    [pc |-> "idle", arg |-> Undefined, header |-> Undefined,
     sent |-> <<>>, nextCalls |-> 0]

\* dbConnection.js:189-204  the middleware built by requestSizeLimiter(arg)
\* handles the request.
requestSizeLimiter ==
    /\ lim.pc = "ready"
    /\ LET maxSize == IF lim.arg = Undefined THEN DefaultMaxSize ELSE lim.arg
           contentLength == parseInt(lim.header)
           maxBytes == parseSize(maxSize)
       IN  IF TooLarge(contentLength, maxBytes)
           THEN lim' = [lim EXCEPT !.pc = "done",
                                   !.sent = Append(@, Envelope413(maxSize))]
           ELSE lim' = [lim EXCEPT !.pc = "done", !.nextCalls = @ + 1]
    /\ UNCHANGED <<dbVars, req, utilVars>>

\* The maxSize arguments tried: every string up to MaxSizeLen over SizeChars,
\* the default, and some longer ones with a fraction or the largest unit.
SizeArgs ==
    UNION {[1..k -> SizeChars] : k \in 0..MaxSizeLen}
        \cup {Undefined,
              <<"1", "g", "b">>,
              <<"1", ".", "5", "k", "b">>,
              <<"1", ".", "5", " ", "M", "B">>,
              <<"0", ".", "1", "k", "b">>,
              <<"2", ".", "7", "5", "k", "b">>,
              <<"b", "o", "g", "u", "s">>}

\* The content-length headers tried against a ceiling: none, not a number,
\* and the lengths around the ceiling.
HeadersFor(maxBytes) ==
    {Undefined, <<"a", "b", "c">>}
        \cup {Decimal(n) : n \in {m \in {0, 1, maxBytes - 1, maxBytes, maxBytes + 1} : m >= 0}}

----------------------------------------------------------------------------
(* setCacheHeaders.  A path is the sequence of its characters.             *)

\* Longest path built from PathChars.
MaxPathLen == 3

PathChars == {"/", ".", "j", "s", "a"}

\* dbConnection.js:153  the alternatives of the pattern.
Extensions ==
    {<<"j", "s">>, <<"c", "s", "s">>, <<"p", "n", "g">>, <<"j", "p", "g">>,
     <<"j", "p", "e", "g">>, <<"g", "i", "f">>, <<"i", "c", "o">>, <<"s", "v", "g">>}

ApiPrefix == <<"/", "a", "p", "i", "/">>

StaticCacheControl == "public, max-age=3600"

ApiCacheControl == "public, max-age=300"

\* dbConnection.js:153  req.path.match(/\.(js|css|png|jpg|jpeg|gif|ico|svg)$/):
\* some position holds a dot and what follows it, up to the end of the
\* path, is one of the alternatives.
MatchesStatic_Anywhere(path) ==
    \E i \in 1..Len(path), j \in 1..Len(path) :
        /\ path[i] = "."
        /\ SubSeq(path, i + 1, j) \in Extensions

MatchesStatic(path) ==
    \E i \in 1..Len(path) :
        /\ path[i] = "."
        /\ SubSeq(path, i + 1, Len(path)) \in Extensions

\* dbConnection.js:157  req.path.startsWith('/api/')
StartsWithApi(path) ==
    /\ Len(path) >= Len(ApiPrefix)
    /\ SubSeq(path, 1, Len(ApiPrefix)) = ApiPrefix

NoHdr == [pc |-> "idle", path |-> <<>>, set |-> <<>>, nextCalls |-> 0]

\* dbConnection.js:151-162  at most one res.set('Cache-Control', ..), the
\* asset branch first, then next().
setCacheHeaders ==
    /\ hdr.pc = "ready"
    /\ hdr' = [hdr EXCEPT
            !.pc = "done",
            !.set = IF MatchesStatic(hdr.path)
                        THEN Append(@, [name |-> "Cache-Control", value |-> StaticCacheControl])
                    ELSE IF StartsWithApi(hdr.path)
                        THEN Append(@, [name |-> "Cache-Control", value |-> ApiCacheControl])
                    ELSE @,
            !.nextCalls = @ + 1]
    /\ UNCHANGED <<dbVars, req, lim, tm, bp>>

\* The tails tried after a prefix: the assets, and near misses of them.
Tails ==
    {<<".">> \o x : x \in Extensions}
        \cup {<<>>, <<".">>, <<"j", "s">>, <<".", "j", "s", "x">>, <<".", "J", "S">>,
              <<".", "j", "s", "/">>, <<".", "j", "s", ".">>, <<".", "c", "s">>,
              <<".", "j", "s", ".", "m", "a", "p">>, <<".", "h", "t", "m", "l">>}

\* The heads tried before a tail: under /api/, and near misses of it.
Heads ==
    {ApiPrefix, ApiPrefix \o <<"a">>, <<"/", "a", "p", "i">>, <<"/", "A", "P", "I", "/">>,
     <<"/", "x">> \o ApiPrefix, <<"a", "p", "i", "/">>, <<"/">>, <<"/", "a">>, <<>>}

\* The paths tried: every string up to MaxPathLen over PathChars and every
\* head followed by every tail.
Paths ==
    UNION {[1..k -> PathChars] : k \in 0..MaxPathLen}
        \cup {h \o t : h \in Heads, t \in Tails}

----------------------------------------------------------------------------
(* withTimeout.  Time is in milliseconds and jumps to the next instant at  *)
(* which the operation or the timer is due; two racers due at the same     *)
(* instant settle in either order.                                         *)

\* dbConnection.js:284  timeoutMs = 10000
DefaultTimeoutMs == 10000

\* An operation that never settles.
Never == -1

\* A promise's state: pending, resolved with a value, rejected with an error.
Pending == [state |-> "pending", value |-> "", err |-> NoErr]

Resolved(v) == [state |-> "resolved", value |-> v, err |-> NoErr]

Rejected(e) == [state |-> "rejected", value |-> "", err |-> e]

\* What the raced operation can settle with.
OpOutcomes ==
    {Resolved(v) : v \in {"rows", "none"}} \cup {Rejected(e) : e \in HandlerErrors}

\* The timeoutMs arguments tried (beside leaving it out).
TimeoutArgs == {0, 10, 100}

\* When, after the call, the operation settles by itself.
OpDurations == {0, 10, 50, 20000, Never}

TimeoutError_NoBound(ms) == Err("Error", "Operation timed out")

\* dbConnection.js:288  new Error(`Operation timed out after ${timeoutMs}ms`)
TimeoutError(ms) == Err("Error", "Operation timed out after " \o ToString(ms) \o "ms")

Settle_Overwrite(result, outcome) == outcome

\* Promise.race's promise takes the first settlement; a later resolve or
\* reject of an already settled promise does nothing.
Settle(result, outcome) ==
    IF result.state = "pending" THEN outcome ELSE result

NoTm ==
    [pc |-> "idle", given |-> FALSE, arg |-> 0, timeoutMs |-> 0, now |-> 0,
     opDue |-> 0, opOutcome |-> Pending, op |-> Pending,
     timer |-> "none", timerDue |-> 0,
     result |-> Pending, order |-> <<>>, settles |-> 0, settledAt |-> 0]

\* One racer has settled and passes its outcome to the race.
Race(t, who, outcome) ==
    [t EXCEPT
        !.result = Settle(@, outcome),
        !.order = Append(@, who),
        !.settles = IF Settle(t.result, outcome) # t.result THEN @ + 1 ELSE @,
        !.settledAt = IF t.result.state = "pending" THEN t.now ELSE @]

\* dbConnection.js:284-293  the call: the default applies when timeoutMs is
\* left out, the timer is armed, both racers are subscribed.  An operation
\* that has already settled is seen by the race before any timer can fire.
withTimeout ==
    /\ tm.pc = "ready"
    /\ LET ms == IF tm.given THEN tm.arg ELSE DefaultTimeoutMs
           t == [tm EXCEPT !.pc = "racing", !.timeoutMs = ms,
                           !.timer = "armed", !.timerDue = tm.now + ms]
       IN  tm' = IF tm.op.state # "pending" THEN Race(t, "op", tm.op) ELSE t
    /\ UNCHANGED <<dbVars, req, lim, hdr, bp>>

\* The racers still to settle and the instants they are due at.
DueTimes(t) ==
    (IF t.op.state = "pending" /\ t.opDue # Never THEN {t.opDue} ELSE {})
        \cup (IF t.timer = "armed" THEN {t.timerDue} ELSE {})

\* Time passes up to the next instant a racer is due at.
Advance ==
    /\ tm.pc = "racing"
    /\ DueTimes(tm) # {}
    /\ \A d \in DueTimes(tm) : d > tm.now
    /\ tm' = [tm EXCEPT !.now = CHOOSE d \in DueTimes(tm) : \A o \in DueTimes(tm) : d <= o]
    /\ UNCHANGED <<dbVars, req, lim, hdr, bp>>

\* The operation settles by itself, whatever the race's state.
OperationSettles ==
    /\ tm.pc = "racing"
    /\ tm.op.state = "pending"
    /\ tm.opDue # Never
    /\ tm.opDue <= tm.now
    /\ tm' = Race([tm EXCEPT !.op = tm.opOutcome], "op", tm.opOutcome)
    /\ UNCHANGED <<dbVars, req, lim, hdr, bp>>

\* dbConnection.js:287-289  the timer callback rejects with the timeout error.
TimerFires ==
    /\ tm.pc = "racing"
    /\ tm.timer = "armed"
    /\ tm.timerDue <= tm.now
    /\ tm' = Race([tm EXCEPT !.timer = "fired"], "timer", Rejected(TimeoutError(tm.timeoutMs)))
    /\ UNCHANGED <<dbVars, req, lim, hdr, bp>>

----------------------------------------------------------------------------
(* batchProcess.  items[k] is identified with its position k: the loop     *)
(* never looks at an item, and what processor makes of it is chosen when   *)
(* its promise settles.                                                    *)

\* Longest items array.
MaxItems == 3

\* batchSize arguments tried: -MaxBatch..MaxBatch (beside leaving it out).
MaxBatch == 2

\* dbConnection.js:239  batchSize = 100
DefaultBatchSize == 100

\* What processor(item) can settle with.
ProcessorOutcomes == OpOutcomes

\* A processor call that throws instead of returning a promise.
ProcessorThrew == Err("TypeError", "processor failed")

\* Array.prototype.slice: a negative index counts from the end, and both
\* ends are clamped to 0..n.
RelativeIndex(k, n) ==
    IF k < 0 THEN (IF n + k < 0 THEN 0 ELSE n + k)
    ELSE (IF k > n THEN n ELSE k)

\* dbConnection.js:243  items.slice(i, i + batchSize), as the positions
\* (from 1) of the items taken.
Slice(n, from, to) ==
    LET a == RelativeIndex(from, n)
        b == RelativeIndex(to, n)
    IN  [j \in 1..(IF b > a THEN b - a ELSE 0) |-> a + j]

AllResolved_Some(slot, batch) ==
    \E j \in 1..Len(batch) : slot[batch[j]].state = "resolved"

\* dbConnection.js:244  Promise.all resolves once every promise has.
AllResolved(slot, batch) ==
    \A j \in 1..Len(batch) : slot[batch[j]].state = "resolved"

\* dbConnection.js:244  Promise.all rejects as soon as one promise has.
SomeRejected(slot, batch) ==
    \E j \in 1..Len(batch) : slot[batch[j]].state = "rejected"

BatchResults_Reversed(slot, batch) ==
    [j \in 1..Len(batch) |-> slot[batch[Len(batch) + 1 - j]].value]

\* dbConnection.js:244  Promise.all's values, in the order of the batch.
BatchResults(slot, batch) ==
    [j \in 1..Len(batch) |-> slot[batch[j]].value]

\* dbConnection.js:242  i += batchSize.  Below -(n + 1) every slice is
\* empty and the loop test stays true, so the model keeps i there.
NextIndex(i, batchSize, n) ==
    IF i + batchSize < 0 - (n + 1) THEN 0 - (n + 1) ELSE i + batchSize

\* turn flips with every pass of the loop.
NoBp ==
    [pc |-> "idle", n |-> 0, given |-> FALSE, arg |-> 0, throwsAt |-> 0,
     batchSize |-> 0, i |-> 0, batch |-> <<>>, turn |-> FALSE,
     slot |-> [k \in 1..MaxItems |-> [state |-> "idle", value |-> "", err |-> NoErr]],
     firstRejected |-> 0, handed |-> <<>>,
     results |-> <<>>, err |-> NoErr]

\* dbConnection.js:244  batch.map(item => processor(item)): the items are
\* handed to processor in order; a call that throws ends the map and
\* rejects batchProcess, the calls made before it stay in flight.
Launch(b, batch) ==
    LET stop == IF \E j \in 1..Len(batch) : batch[j] = b.throwsAt
                THEN CHOOSE j \in 1..Len(batch) : batch[j] = b.throwsAt
                ELSE Len(batch) + 1
        made == SubSeq(batch, 1, stop - 1)
        slot1 == [k \in 1..MaxItems |->
                    IF \E j \in 1..Len(made) : made[j] = k
                    THEN [b.slot[k] EXCEPT !.state = "inflight"]
                    ELSE IF stop <= Len(batch) /\ batch[stop] = k
                    THEN [b.slot[k] EXCEPT !.state = "threw", !.err = ProcessorThrew]
                    ELSE b.slot[k]]
        handed1 == b.handed \o SubSeq(batch, 1, IF stop <= Len(batch) THEN stop ELSE Len(batch))
    IN  IF stop <= Len(batch)
        THEN [b EXCEPT !.pc = "rejected", !.err = ProcessorThrew, !.batch = batch,
                       !.slot = slot1, !.handed = handed1]
        ELSE [b EXCEPT !.pc = "awaiting", !.batch = batch,
                       !.slot = slot1, !.handed = handed1]

\* dbConnection.js:242-249  the loop test, then the next chunk or the return.
Loop(b) ==
    IF b.i < b.n
    THEN Launch(b, Slice(b.n, b.i, b.i + b.batchSize))
    ELSE [b EXCEPT !.pc = "resolved", !.batch = <<>>]

\* dbConnection.js:239-244  the call, up to the first await (or the return
\* of an empty result).
batchProcess ==
    /\ bp.pc = "ready"
    /\ bp' = Loop([bp EXCEPT !.batchSize = IF bp.given THEN bp.arg ELSE DefaultBatchSize,
                             !.i = 0, !.results = <<>>])
    /\ UNCHANGED <<dbVars, req, lim, hdr, tm>>

\* The promise processor returned for item k settles.
ItemSettles(k, o) ==
    /\ bp.slot[k].state = "inflight"
    /\ bp' = [bp EXCEPT
            !.slot[k] = [state |-> o.state, value |-> o.value, err |-> o.err],
            !.firstRejected =
                IF o.state = "rejected" /\ ~SomeRejected(bp.slot, bp.batch) THEN k ELSE @]
    /\ UNCHANGED <<dbVars, req, lim, hdr, tm>>

\* dbConnection.js:244-249  the continuation after the await: the rejection
\* of Promise.all rejects batchProcess; its values are pushed, i advances
\* and the loop goes on.
BatchSettled ==
    /\ bp.pc = "awaiting"
    /\ \/ /\ SomeRejected(bp.slot, bp.batch)
          /\ bp' = [bp EXCEPT !.pc = "rejected", !.err = bp.slot[bp.firstRejected].err]
       \/ /\ ~SomeRejected(bp.slot, bp.batch)
          /\ AllResolved(bp.slot, bp.batch)
          /\ bp' = Loop([bp EXCEPT
                    !.results = @ \o BatchResults(bp.slot, bp.batch),
                    !.i = NextIndex(@, bp.batchSize, bp.n),
                    !.turn = ~@])
    /\ UNCHANGED <<dbVars, req, lim, hdr, tm>>

----------------------------------------------------------------------------

Init ==
    /\ cachedConnection = 0
    /\ readyState = 0
    /\ listeners = [ev \in Events |-> 0]
    /\ attempts = 0
    /\ lost = FALSE
    /\ disc = NoDisc
    /\ calls = [c \in CallIds |-> NoCall]
    /\ req = NoReq
    /\ lim = NoLim
    /\ hdr = NoHdr
    /\ tm = NoTm
    /\ bp = NoBp

Next ==
    \/ \E c \in CallIds : ConnectEntry(c) /\ UNCHANGED <<req, lim, utilVars>>
    \/ \E c \in CallIds : ConnectResolved(c) /\ UNCHANGED <<req, lim, utilVars>>
    \/ \E c \in CallIds, e \in DriverErrors : ConnectFailed(c, e) /\ UNCHANGED <<req, lim, utilVars>>
    \/ \E c \in CallIds : CloseEntry(c) /\ UNCHANGED <<req, lim, utilVars>>
    \/ \E c \in CallIds : CloseResolved(c) /\ UNCHANGED <<req, lim, utilVars>>
    \/ \E c \in CallIds, e \in DriverErrors : CloseFailed(c, e) /\ UNCHANGED <<req, lim, utilVars>>
    \/ DriverDisconnected /\ UNCHANGED <<req, lim, utilVars>>
    \/ DriverError /\ UNCHANGED <<req, lim, utilVars>>
    \/ DriverReconnected /\ UNCHANGED <<req, lim, utilVars>>

\* The connection cache under direct calls and driver events.
Spec == Init /\ [][Next]_vars

MwNext ==
    \/ \E w \in Wrappers, b \in Behaviours, e \in HandlerErrors : Invoke(w, b, e)
    \/ \E i \in 1..MaxDepth : WithDatabaseConnected(i)
    \/ \E i \in 1..MaxDepth : WithDatabaseSettled(i)
    \/ \E i \in 1..MaxDepth : MonitoringSettled(i)
    \/ FnSettled
    \/ \E i \in 1..MaxDepth : CatchForward(i)
    \/ \E c \in MwCallIds : ConnectEntry(c) /\ UNCHANGED <<req, lim, utilVars>>
    \/ \E c \in MwCallIds : ConnectResolved(c) /\ UNCHANGED <<req, lim, utilVars>>
    \/ \E c \in MwCallIds, e \in DriverErrors : ConnectFailed(c, e) /\ UNCHANGED <<req, lim, utilVars>>
    \/ \E c \in MwCallIds : CloseEntry(c) /\ UNCHANGED <<req, lim, utilVars>>
    \/ \E c \in MwCallIds : CloseResolved(c) /\ UNCHANGED <<req, lim, utilVars>>
    \/ \E c \in MwCallIds, e \in DriverErrors : CloseFailed(c, e) /\ UNCHANGED <<req, lim, utilVars>>
    \/ DriverDisconnected /\ UNCHANGED <<req, lim, utilVars>>
    \/ DriverError /\ UNCHANGED <<req, lim, utilVars>>
    \/ DriverReconnected /\ UNCHANGED <<req, lim, utilVars>>

\* A request through a wrapped handler, beside direct calls and driver events.
SpecMw == Init /\ [][MwNext]_vars

LimInit ==
    /\ cachedConnection = 0
    /\ readyState = 0
    /\ listeners = [ev \in Events |-> 0]
    /\ attempts = 0
    /\ lost = FALSE
    /\ disc = NoDisc
    /\ calls = [c \in CallIds |-> NoCall]
    /\ req = NoReq
    /\ \E arg \in SizeArgs :
        \E h \in HeadersFor(parseSize(IF arg = Undefined THEN DefaultMaxSize ELSE arg)) :
            lim = [NoLim EXCEPT !.pc = "ready", !.arg = arg, !.header = h]
    /\ hdr = NoHdr
    /\ tm = NoTm
    /\ bp = NoBp

LimNext == requestSizeLimiter

\* One request at the size limiter, for every argument and header tried.
SpecLimiter == LimInit /\ [][LimNext]_vars

HdrInit ==
    /\ cachedConnection = 0
    /\ readyState = 0
    /\ listeners = [ev \in Events |-> 0]
    /\ attempts = 0
    /\ lost = FALSE
    /\ disc = NoDisc
    /\ calls = [c \in CallIds |-> NoCall]
    /\ req = NoReq
    /\ lim = NoLim
    /\ \E path \in Paths : hdr = [NoHdr EXCEPT !.pc = "ready", !.path = path]
    /\ tm = NoTm
    /\ bp = NoBp

HdrNext == setCacheHeaders

\* One request at setCacheHeaders, for every path tried.
SpecCacheHeaders == HdrInit /\ [][HdrNext]_vars

TmInit ==
    /\ cachedConnection = 0
    /\ readyState = 0
    /\ listeners = [ev \in Events |-> 0]
    /\ attempts = 0
    /\ lost = FALSE
    /\ disc = NoDisc
    /\ calls = [c \in CallIds |-> NoCall]
    /\ req = NoReq
    /\ lim = NoLim
    /\ hdr = NoHdr
    /\ \E given \in BOOLEAN, o \in OpOutcomes, d \in OpDurations, early \in BOOLEAN :
        \E arg \in IF given THEN TimeoutArgs ELSE {0} :
            tm = [NoTm EXCEPT !.pc = "ready", !.given = given, !.arg = arg,
                              !.opOutcome = o,
                              !.opDue = IF early THEN 0 ELSE d,
                              !.op = IF early THEN o ELSE Pending]
    /\ bp = NoBp

TmNext ==
    \/ withTimeout
    \/ Advance
    \/ OperationSettles
    \/ TimerFires

\* One withTimeout race, for every operation and bound tried.
SpecTimeout == TmInit /\ [][TmNext]_vars

BpInit ==
    /\ cachedConnection = 0
    /\ readyState = 0
    /\ listeners = [ev \in Events |-> 0]
    /\ attempts = 0
    /\ lost = FALSE
    /\ disc = NoDisc
    /\ calls = [c \in CallIds |-> NoCall]
    /\ req = NoReq
    /\ lim = NoLim
    /\ hdr = NoHdr
    /\ tm = NoTm
    /\ \E n \in 0..MaxItems, given \in BOOLEAN :
        \E arg \in IF given THEN (0 - MaxBatch)..MaxBatch ELSE {0}, t \in 0..n :
            bp = [NoBp EXCEPT !.pc = "ready", !.n = n, !.given = given,
                              !.arg = arg, !.throwsAt = t]

BpNext ==
    \/ batchProcess
    \/ \E k \in 1..MaxItems, o \in ProcessorOutcomes : ItemSettles(k, o)
    \/ BatchSettled

\* One batchProcess call, for every array and batch size tried.  Every
\* processor promise settles and every continuation runs.
SpecBatch == BpInit /\ [][BpNext]_vars /\ WF_vars(BpNext)

----------------------------------------------------------------------------
(* Properties of the connection cache                                      *)

ConnectCalls == {c \in CallIds : calls[c].op = "connect"}

CloseCalls == {c \in CallIds : calls[c].op = "close"}

\* C1: connectToDatabase() called with a non-null cache and readyState 1
\* returns the cached handle and starts no establishment; called in any other
\* state it starts exactly one establishment and, when that resolves, the
\* cache holds the newly established handle at the return and that handle is
\* the return value.
C1_ConnectContract ==
    \A c \in ConnectCalls :
        IF calls[c].entryCache # 0 /\ calls[c].entryReady = 1
        THEN /\ calls[c].pc = "resolved"
             /\ calls[c].ret = calls[c].entryCache
             /\ calls[c].started = 0
        ELSE /\ calls[c].started = 1
             /\ calls[c].pc = "resolved" =>
                    /\ calls[c].ret = Handle(calls[c].attempt)
                    /\ calls[c].cacheAtSettle = calls[c].ret

\* C1 witness: one call was served from the cache and another returned the
\* handle its own establishment had just stored.
C1_Witness ==
    /\ \E c \in ConnectCalls :
        /\ calls[c].path = "cached"
        /\ calls[c].ret # 0
    /\ \E c \in ConnectCalls :
        /\ calls[c].path = "establish"
        /\ calls[c].pc = "resolved"
        /\ calls[c].cacheAtSettle = calls[c].ret

C3_FailedConnect ==
    \A c \in ConnectCalls :
        calls[c].attemptErr # NoErr =>
            /\ calls[c].pc = "rejected"
            /\ calls[c].err = calls[c].attemptErr
            /\ calls[c].cacheAtSettle = 0
            /\ calls[c].registered = 0

\* C3 witness: an attempt failed while an overlapping call had already cached
\* a handle, so the reset had something to clear.
C3_Witness ==
    \E c, d \in ConnectCalls :
        /\ calls[c].pc = "rejected"
        /\ calls[c].err \in DriverErrors
        /\ calls[d].pc = "resolved"
        /\ calls[d].attempt \in calls[c].sawInFlight

\* C4 (as claimed): at most one establishment attempt is in flight at any
\* time, and a call made while another awaits establishment ends with the
\* same handle as that other call.
C4_SingleFlight ==
    /\ Cardinality(InFlight) <= 1
    /\ \A c, d \in ConnectCalls :
        /\ calls[c].attempt \in calls[d].sawInFlight
        /\ calls[c].pc = "resolved"
        /\ calls[d].pc = "resolved"
        => calls[c].ret = calls[d].ret

\* C5 (as claimed): closeConnection() called with a cached handle invokes the
\* teardown once and leaves the cache null at its return; called with a null
\* cache it invokes no teardown and leaves the cache null.
C5_CloseClearsCache ==
    \A c \in CloseCalls :
        IF calls[c].entryCache # 0
        THEN /\ calls[c].teardown = 1
             /\ calls[c].pc \in {"resolved", "rejected"} => calls[c].cacheAtSettle = 0
        ELSE /\ calls[c].teardown = 0
             /\ calls[c].pc = "resolved"
             /\ calls[c].cacheAtSettle = 0

\* C6: closeConnection() never rejects, whether the teardown succeeds, fails
\* or is not needed; a teardown error does not reach the caller.
C6_CloseNeverRejects ==
    \A c \in CloseCalls :
        /\ calls[c].pc \in {"awaitClose", "resolved"}
        /\ calls[c].err = NoErr

\* C6 witness: a close whose teardown failed has resolved.
C6_Witness ==
    \E c \in CloseCalls :
        /\ calls[c].teardownErr \in DriverErrors
        /\ calls[c].pc = "resolved"

----------------------------------------------------------------------------
(* Properties of the wrappers                                              *)

\* C7: withDatabase(fn) invokes fn only after connectToDatabase() resolved;
\* when the connection fails fn is never invoked and the one response is
\* status 500 with {success:false, error:'Database operation failed',
\* message: the error's text}; when fn throws or rejects with e the response
\* is that envelope with e's text; the wrapper's promise never rejects and
\* the wrapper never calls next.
C7_WithDatabase ==
    req.wrapper = "withDatabase" =>
        LET wd == req.fr[1]
            f == req.fr[2]
            Sent(e) == <<[status |-> 500,
                          body |-> [success |-> FALSE,
                                    error |-> "Database operation failed",
                                    message |-> e.message]]>>
        IN  /\ FnInvoked(req) => req.connAtFn = "resolved"
            /\ ConnPc(req) = "rejected" => ~FnInvoked(req)
            /\ ConnPc(req) = "rejected" /\ wd.pc = "done" =>
                    req.sent = Sent(calls[req.conn].err)
            /\ f.out \in {"threw", "rejected"} /\ wd.pc = "done" =>
                    f.err = req.e /\ req.sent = Sent(req.e)
            /\ wd.out \in {"pending", "resolved"}
            /\ wd.pc = "done" => wd.out = "resolved"
            /\ req.nextArgs = <<>>

\* C7 witness: the connection failed and the wrapper answered 500 and resolved.
C7_Witness ==
    /\ req.wrapper = "withDatabase"
    /\ ConnPc(req) = "rejected"
    /\ Len(req.sent) = 1
    /\ req.sent[1].status = 500
    /\ req.fr[1].out = "resolved"

\* C8: under asyncHandler(fn) and catchAsync(fn), a rejection e of fn's
\* promise has a handler attached, and that handler calls next(e) exactly
\* once; when fn's promise resolves the wrapper never calls next.
C8_ForwardRejection ==
    req.wrapper \in {"asyncHandler", "catchAsync"} =>
        LET h == req.fr[1]
            f == req.fr[2]
        IN  /\ f.out = "rejected" =>
                /\ f.handled
                /\ f.err = req.e
                /\ req.nextArgs = IF h.pc = "done" THEN <<req.e>> ELSE <<>>
            /\ f.out = "resolved" => req.nextArgs = <<>>
            /\ ~Unhandled(req)

\* C8 witness: catchAsync forwarded the rejection of fn to next.
C8_Witness ==
    /\ req.wrapper = "catchAsync"
    /\ req.fr[2].out = "rejected"
    /\ req.nextArgs = <<req.e>>

\* C9: withDatabaseAndMonitoring(fn) is monitoring around the database
\* wrapper around the async-error wrapper; fn is invoked only after
\* connectToDatabase() resolved; when the connection fails fn is never
\* invoked, exactly one 500 envelope is sent, next is not called and the
\* composite's promise resolves.
C9_Composite ==
    req.wrapper = "withDatabaseAndMonitoring" =>
        /\ req.layers =
              <<"withPerformanceMonitoring", "withDatabase", "asyncHandler">>
        /\ FnInvoked(req) => req.connAtFn = "resolved"
        /\ ConnPc(req) = "rejected" =>
              /\ ~FnInvoked(req)
              /\ req.nextArgs = <<>>
              /\ req.fr[1].out \in {"pending", "resolved"}
              /\ req.sent = IF req.fr[2].pc = "done"
                            THEN <<[status |-> 500,
                                    body |-> [success |-> FALSE,
                                              error |-> "Database operation failed",
                                              message |-> calls[req.conn].err.message]]>>
                            ELSE <<>>
              /\ req.fr[1].pc = "done" =>
                    req.fr[1].out = "resolved" /\ Len(req.sent) = 1

\* C9 witness: the connection failed under the composite, which sent one 500
\* and resolved.
C9_Witness ==
    /\ req.wrapper = "withDatabaseAndMonitoring"
    /\ ConnPc(req) = "rejected"
    /\ req.fr[1].pc = "done"
    /\ req.fr[1].out = "resolved"
    /\ Len(req.sent) = 1

----------------------------------------------------------------------------
(* Properties of the size limiter                                          *)

\* The header is a plain decimal number: the declared content length.
Declared(h) == h # Undefined /\ Len(h) > 0 /\ \A i \in 1..Len(h) : IsDigit(h[i])

\* C10: a request whose declared content-length exceeds parseSize(maxSize)
\* gets status 413 with {success:false, error:'Request entity too large',
\* maxSize} and next is never invoked; a request whose content-length is at
\* or below the ceiling, or absent, gets no response and next is invoked
\* exactly once.
C10_SizeLimiter ==
    lim.pc = "done" =>
        LET maxSize == IF lim.arg = Undefined THEN <<"1", "0", "m", "b">> ELSE lim.arg
            ceiling == parseSize(maxSize)
            over == Declared(lim.header) /\ DecimalValue(lim.header) > ceiling
            within == lim.header = Undefined
                        \/ (Declared(lim.header) /\ DecimalValue(lim.header) <= ceiling)
        IN  /\ over =>
                /\ lim.sent = <<[status |-> 413,
                                 body |-> [success |-> FALSE,
                                           error |-> "Request entity too large",
                                           maxSize |-> maxSize]]>>
                /\ lim.nextCalls = 0
            /\ within => lim.sent = <<>> /\ lim.nextCalls = 1

\* C10 witness: a request one byte over a ceiling given with a fraction and a
\* unit was answered 413.
C10_Witness ==
    /\ lim.pc = "done"
    /\ lim.arg = <<"1", ".", "5", "k", "b">>
    /\ lim.header = <<"1", "5", "3", "7">>
    /\ Len(lim.sent) = 1
    /\ lim.nextCalls = 0

----------------------------------------------------------------------------
(* Invariants claimed of the connection cache                              *)

\* No connectToDatabase() or closeConnection() call is awaiting the driver.
NoCallInFlight ==
    \A c \in CallIds : calls[c].pc \notin {"awaitConnect", "awaitClose"}

\* C18 (as claimed): whenever no connectToDatabase() or closeConnection()
\* call is in flight, the cached handle is non-null exactly when the driver's
\* readyState is 1.
C18_CacheDriverConsistent ==
    NoCallInFlight => (cachedConnection # 0 <=> readyState = 1)

\* C19 (as claimed): the driver connection never has more than one observer
\* registered for any of 'error', 'disconnected' and 'reconnected'.
C19_ObserversBounded ==
    \A ev \in Events : listeners[ev] <= 1

----------------------------------------------------------------------------
(* Error paths of the wrappers                                             *)

\* C14: under withDatabaseAndMonitoring an error raised by fn ends in exactly
\* one outcome: a synchronous throw becomes exactly one 500 envelope of the
\* database wrapper and next is not called; a rejection is forwarded to next
\* exactly once and no envelope is sent; never both, never neither.
C14_OneOutcome ==
    req.wrapper = "withDatabaseAndMonitoring" =>
        LET f == req.fr[4]
            ah == req.fr[3]
            wd == req.fr[2]
        IN  f.out \in {"threw", "rejected"} =>
                /\ f.err = req.e
                /\ Len(req.nextArgs) + Len(req.sent) <= 1
                /\ f.out = "threw" /\ wd.pc = "done" =>
                        /\ req.nextArgs = <<>>
                        /\ Len(req.sent) = 1
                        /\ req.sent[1].status = 500
                        /\ req.sent[1].body.message = req.e.message
                /\ f.out = "rejected" => f.handled
                /\ f.out = "rejected" /\ ah.pc = "done" =>
                        /\ req.nextArgs = <<req.e>>
                        /\ req.sent = <<>>

\* C14 witness: fn threw synchronously under the composite and the database
\* wrapper turned the error into the one 500 envelope.
C14_Witness ==
    /\ req.wrapper = "withDatabaseAndMonitoring"
    /\ req.fr[4].out = "threw"
    /\ req.fr[1].pc = "done"
    /\ Len(req.sent) = 1
    /\ req.nextArgs = <<>>

\* Position k of the trace is a response or a call of next that no log line
\* with method, path and duration for the same error precedes.
Unannounced(k) ==
    /\ req.trace[k].kind \in {"send", "next"}
    /\ ~\E j \in 1..(k - 1) :
            /\ req.trace[j].kind = "log"
            /\ req.trace[j].context
            /\ req.trace[j].error = req.trace[k].error

\* The monitoring layer rejects only with the error it has just logged with
\* method, path and duration.
MonitoringRethrows ==
    \A i \in 1..Len(req.layers) :
        req.layers[i] = "withPerformanceMonitoring" /\ req.fr[i].out = "rejected" =>
            /\ req.fr[i].err = req.fr[i + 1].err
            /\ req.trace # <<>>
            /\ req.trace[Len(req.trace)] =
                    [kind |-> "log", by |-> "withPerformanceMonitoring",
                     context |-> TRUE, error |-> req.fr[i].err]

\* C15 (as claimed): every error the wrappers forward to next or convert into
\* the 500 envelope was logged before with method, path and duration, and
\* withPerformanceMonitoring logs a failing handler's error with the duration
\* and rejects with that error.
C15_LoggedWithContext ==
    /\ \A k \in 1..Len(req.trace) : ~Unannounced(k)
    /\ MonitoringRethrows

\* C15 (amended): withPerformanceMonitoring logs a failing handler's error
\* with method, path and duration and rejects with that error; withDatabase
\* logs the error, without method, path or duration, right before it sends
\* the 500 envelope; asyncHandler and catchAsync forward to next without
\* logging anything.
C15_LoggingAsCoded ==
    /\ MonitoringRethrows
    /\ \A k \in 1..Len(req.trace) :
        /\ req.trace[k].kind = "send" =>
                /\ k > 1
                /\ req.trace[k - 1] =
                        [kind |-> "log", by |-> "withDatabase",
                         context |-> FALSE, error |-> req.trace[k].error]
        /\ req.trace[k].kind = "log" /\ req.trace[k].by = "withDatabase" =>
                /\ k < Len(req.trace)
                /\ req.trace[k + 1].kind = "send"
        /\ req.trace[k].kind = "next" =>
                ~\E j \in 1..Len(req.trace) :
                    req.trace[j].kind = "log" /\ req.trace[j].error = req.trace[k].error
    /\ req.wrapper \in {"asyncHandler", "catchAsync"} =>
            \A k \in 1..Len(req.trace) : req.trace[k].kind # "log"

\* C15 witness: the monitoring wrapper logged the rejection of its handler
\* with the duration and rejected with the same error.
C15_Witness ==
    /\ req.wrapper = "withPerformanceMonitoring"
    /\ req.fr[2].out = "rejected"
    /\ req.fr[1].out = "rejected"
    /\ req.fr[1].err = req.e
    /\ Len(req.trace) = 1
    /\ req.trace[1].context

----------------------------------------------------------------------------
(* Cache headers                                                           *)

\* The path ends with a dot followed by extension x.
EndsWith(path, x) ==
    /\ Len(path) > Len(x)
    /\ SubSeq(path, Len(path) - Len(x), Len(path)) = <<".">> \o x

\* C13: setCacheHeaders sets Cache-Control to 'public, max-age=3600' for a
\* path ending in a static-asset extension, to 'public, max-age=300' for a
\* path under /api/ that does not end in one, sets nothing for any other
\* path, and calls next exactly once in all three cases.
C13_CacheHeaders ==
    hdr.pc = "done" =>
        LET asset == \E x \in Extensions : EndsWith(hdr.path, x)
            api == Len(hdr.path) >= 5 /\ SubSeq(hdr.path, 1, 5) = <<"/", "a", "p", "i", "/">>
        IN  /\ hdr.nextCalls = 1
            /\ asset =>
                hdr.set = <<[name |-> "Cache-Control", value |-> "public, max-age=3600"]>>
            /\ ~asset /\ api =>
                hdr.set = <<[name |-> "Cache-Control", value |-> "public, max-age=300"]>>
            /\ ~asset /\ ~api => hdr.set = <<>>

\* C13 witness: a path under /api/ that ends in an asset extension got the
\* one-hour header, not the five-minute one, and next was called.
C13_Witness ==
    /\ hdr.pc = "done"
    /\ hdr.path = <<"/", "a", "p", "i", "/", ".", "j", "s">>
    /\ hdr.set = <<[name |-> "Cache-Control", value |-> "public, max-age=3600"]>>
    /\ hdr.nextCalls = 1

----------------------------------------------------------------------------
(* The timeout race                                                        *)

\* C12: when the timer fires before the operation settles, the promise
\* withTimeout returned is rejected with the timeout error naming timeoutMs
\* (10000 when left out), at the bound; when the operation settles first,
\* it has the operation's own outcome; it settles exactly once, and has
\* settled once any racer has.
C12_TimeoutRace ==
    tm.pc = "racing" =>
        LET ms == IF tm.given THEN tm.arg ELSE 10000
        IN  /\ tm.order = <<>> => tm.result.state = "pending" /\ tm.settles = 0
            /\ tm.order # <<>> => tm.settles = 1
            /\ tm.order # <<>> /\ tm.order[1] = "timer" =>
                    /\ tm.result.state = "rejected"
                    /\ tm.result.err.name = "Error"
                    /\ tm.result.err.message =
                            "Operation timed out after " \o ToString(ms) \o "ms"
                    /\ tm.settledAt = ms
                    /\ tm.opDue = Never \/ tm.opDue >= ms
            /\ tm.order # <<>> /\ tm.order[1] = "op" =>
                    /\ tm.result = tm.opOutcome
                    /\ tm.settledAt = tm.opDue
                    /\ tm.opDue <= ms
            /\ tm.opDue # Never /\ tm.opDue < ms /\ tm.now > tm.opDue =>
                    tm.result = tm.opOutcome
            /\ (tm.opDue = Never \/ tm.opDue > ms) /\ tm.now > ms =>
                    tm.result.state = "rejected" /\ tm.result # tm.opOutcome

\* C12 witness: an operation due after 50ms raced against a 10ms bound; the
\* timer fired first and the returned promise is rejected with the timeout
\* error at 10ms.
C12_Witness ==
    /\ tm.pc = "racing"
    /\ tm.given /\ tm.arg = 10 /\ tm.opDue = 50
    /\ tm.order = <<"timer">>
    /\ tm.result.state = "rejected"
    /\ tm.result.err.message = "Operation timed out after 10ms"
    /\ tm.now = 10

\* C17: withTimeout does not cancel the operation: after the timer has won,
\* the operation is still pending and still due, and it later settles with
\* its own outcome; the racer that settles second, whichever it is, leaves
\* the settled result as the first racer made it.
C17_NoCancellation ==
    tm.pc = "racing" =>
        /\ tm.order = <<"timer">> =>
                /\ tm.op.state = "pending"
                /\ tm.opDue # Never => tm.opDue \in DueTimes(tm)
        /\ Len(tm.order) = 2 =>
                /\ tm.op = tm.opOutcome
                /\ tm.timer = "fired"
                /\ tm.settles = 1
                /\ tm.order[1] = "timer" =>
                        tm.result = Rejected(TimeoutError(tm.timeoutMs))
                /\ tm.order[1] = "op" => tm.result = tm.opOutcome
        /\ tm.timer = "armed" => tm.timerDue \in DueTimes(tm)

\* C17 witness: the timer won, the operation then ran to completion and
\* resolved, and the returned promise is still the timeout rejection.
C17_Witness ==
    /\ tm.order = <<"timer", "op">>
    /\ tm.op.state = "resolved"
    /\ tm.result.state = "rejected"
    /\ tm.result = Rejected(TimeoutError(tm.timeoutMs))

----------------------------------------------------------------------------
(* Batches                                                                 *)

\* The chunk (from 0) position k belongs to when the chunks hold size items.
ChunkOf(k, size) == (k - 1) \div size

ItemInFlight(k) == bp.slot[k].state = "inflight"

\* C11: for every batchSize >= 1, whatever the order the processor promises
\* settle in, a resolved batchProcess returns as many results as there are
\* items, and result k is the value processor produced for item k.
C11_OrderPreserved ==
    bp.pc = "resolved" /\ bp.batchSize >= 1 =>
        /\ Len(bp.results) = bp.n
        /\ \A k \in 1..bp.n :
            /\ bp.slot[k].state = "resolved"
            /\ bp.results[k] = bp.slot[k].value

\* C11 witness: three items in chunks of two, all resolved, with different
\* values at different positions.
C11_Witness ==
    /\ bp.pc = "resolved"
    /\ bp.n = 3 /\ bp.batchSize = 2
    /\ bp.results = <<"rows", "none", "rows">>

C20_Terminates == <>(bp.pc \in {"resolved", "rejected"})

====
